---- MODULE Spec2Model ----
(***************************************************************************)
(* Model of the FreeIPA "ou" plugin (plugin/ipaserver/plugins/ou.py).      *)
(*                                                                         *)
(* The only code with behaviour is ou_add.pre_callback: it probes the      *)
(* container cn=altou,<basedn>, creates it when the probe says NotFound,   *)
(* tolerates DuplicateEntry on that write, defaults objectCategory and     *)
(* returns the DN it was given.  The inherited LDAPCreate then writes the  *)
(* child entry.  Several requests run concurrently; every directory call   *)
(* is one atomic round-trip and the points between calls are where the     *)
(* requests interleave.                                                    *)
(***************************************************************************)
EXTENDS Naturals, Sequences, FiniteSets, TLC

VARIABLES basedn, directory, pc, dn, given, entry_attrs, result, raised, calls

vars == <<basedn, directory, pc, dn, given, entry_attrs, result, raised, calls>>

(* Number of concurrent ou_add requests. *)
MaxRequests == 2

Requests == 1..MaxRequests

(***************************************************************************)
(* Distinguished names: a DN is a sequence of RDNs <<attr, value>>.        *)
(***************************************************************************)
BaseDNs ==
    { << <<"dc", "example">>, <<"dc", "com">> >>,
      << <<"dc", "ipa">>, <<"dc", "test">> >> }

(* str(DN): the RDNs as attr=value, joined by commas. *)
RECURSIVE DNStr(_)
DNStr(d) ==
    IF d = << >> THEN ""
    ELSE IF Len(d) = 1 THEN d[1][1] \o "=" \o d[1][2]
    ELSE d[1][1] \o "=" \o d[1][2] \o "," \o DNStr(Tail(d))

(* DN(a, b): the RDNs of a followed by the RDNs of b. *)
DN(a, b) == a \o b

(* ou.container_dn = DN(('cn', 'altou')) *)
container_dn == << <<"cn", "altou">> >>

(* ou.object_class *)
object_class == {"altOrganizationalUnit", "organizationalUnit", "top"}

(* container_dn = DN(self.obj.container_dn, api.env.basedn) *)
ContainerDN == DN(container_dn, basedn)

(***************************************************************************)
(* Errors.  NoError is the absence of an exception.                        *)
(***************************************************************************)
NoError == [type |-> "none", reason |-> ""]

NotFoundError == [type |-> "NotFound", reason |-> "no such entry"]

DuplicateEntryError == [type |-> "DuplicateEntry", reason |-> "This entry already exists"]

(* Failures of the directory other than NotFound / DuplicateEntry. *)
OtherErrors ==
    { [type |-> "ACIError", reason |-> "Insufficient access"],
      [type |-> "DatabaseError", reason |-> "Server is unwilling to perform"] }

(* str(e) of an exception. *)
ErrStr(e) == e.reason

(***************************************************************************)
(* Attribute maps (LDAPEntry): attribute names are case-insensitive; the   *)
(* map keeps the spelling under which an attribute was first stored.       *)
(***************************************************************************)
Lower(name) ==
    CASE name = "objectCategory" -> "objectcategory"
      [] name = "OBJECTCATEGORY" -> "objectcategory"
      [] name = "gPLink" -> "gplink"
      [] OTHER -> name

(* name in entry_attrs *)
Contains(attrs, name) == \E k \in DOMAIN attrs : Lower(k) = Lower(name)

(* entry_attrs[name] = value *)
SetItem(attrs, name, value) ==
    IF Contains(attrs, name)
    THEN [attrs EXCEPT ![CHOOSE k \in DOMAIN attrs : Lower(k) = Lower(name)] = value]
    ELSE [k \in DOMAIN attrs \cup {name} |-> IF k = name THEN value ELSE attrs[k]]

(* The attribute maps a caller may pass: ou is required, the rest optional. *)
EntryAttrsInputs ==
    { [ou |-> "Engineering"],
      [ou |-> "Sales", description |-> "Sales department", gplink |-> "[LDAP://cn=gpo1;0]"],
      [ou |-> "Engineering", objectcategory |-> "CN=custom,CN=schema,dc=corp"],
      [ou |-> "Sales", description |-> "Field sales", objectCategory |-> "CN=other,CN=schema,dc=corp"] }

OuNames == {a.ou : a \in EntryAttrsInputs}

(* The DN the framework computes for the Organizational Unit named ou. *)
ChildDN(name) == DN(<< <<"ou", name>> >>, ContainerDN)

NoDN == << >>

(***************************************************************************)
(* The directory: a set of entries, at most one per DN through add_entry.  *)
(***************************************************************************)
EntriesAt(d) == {e \in directory : e.dn = d}

(* Slip: the entry is made at the relative container DN, without the base DN. *)
container_entry_relative ==
    [dn |-> container_dn,
     objectclass |-> {"nsContainer", "top"},
     attrs |-> [cn |-> <<"altou">>]]

(* Slip: the object class top is left out. *)
container_entry_no_top ==
    [dn |-> ContainerDN,
     objectclass |-> {"nsContainer"},
     attrs |-> [cn |-> <<"altou">>]]

(* ldap.make_entry(container_dn, objectclass=['nsContainer', 'top'], cn=['altou']) *)
container_entry ==
    [dn |-> ContainerDN,
     objectclass |-> {"nsContainer", "top"},
     attrs |-> [cn |-> <<"altou">>]]

(* The entry LDAPCreate writes for a request. *)
ChildEntry(r) ==
    [dn |-> result[r], objectclass |-> object_class, attrs |-> entry_attrs[r]]

Init ==
    /\ basedn \in BaseDNs
    /\ directory \in
         { {},
           { [dn |-> DN(container_dn, basedn),
              objectclass |-> {"nsContainer", "top"},
              attrs |-> [cn |-> <<"altou">>]] } }
    /\ pc = [r \in Requests |-> "idle"]
    /\ dn = [r \in Requests |-> NoDN]
    /\ given = [r \in Requests |-> << >>]
    /\ entry_attrs = [r \in Requests |-> << >>]
    /\ result = [r \in Requests |-> NoDN]
    /\ raised = [r \in Requests |-> NoError]
    /\ calls = [r \in Requests |-> << >>]

(***************************************************************************)
(* ou_add.pre_callback                                                     *)
(***************************************************************************)

(* Slip: the default is built without the CN=schema component. *)
DefaultObjectCategoryNoSchema(attrs) ==
    IF ~Contains(attrs, "objectcategory")
    THEN SetItem(attrs, "objectCategory",
                 "CN=altOrganizationalUnit," \o DNStr(basedn))
    ELSE attrs

(* Slip: the default is assigned without the membership test. *)
DefaultObjectCategoryAlways(attrs) ==
    SetItem(attrs, "objectCategory",
            "CN=altOrganizationalUnit,CN=schema," \o DNStr(basedn))

(* if 'objectcategory' not in entry_attrs:
       entry_attrs['objectCategory'] = f'CN=altOrganizationalUnit,CN=schema,{api.env.basedn}' *)
DefaultObjectCategory(attrs) ==
    IF ~Contains(attrs, "objectcategory")
    THEN SetItem(attrs, "objectCategory",
                 "CN=altOrganizationalUnit,CN=schema," \o DNStr(basedn))
    ELSE attrs

(* Slip: container_dn is returned in place of dn. *)
ReturnValueContainer(r) == ContainerDN

(* The value pre_callback returns. *)
ReturnValue(r) == dn[r]

(* The tail of pre_callback once the container is ensured. *)
Finish(r) ==
    /\ entry_attrs' = [entry_attrs EXCEPT ![r] = DefaultObjectCategory(entry_attrs[r])]
    /\ result' = [result EXCEPT ![r] = ReturnValue(r)]
    /\ pc' = [pc EXCEPT ![r] = "returned"]
    /\ UNCHANGED raised

(* An exception leaves pre_callback. *)
Raise(r, e) ==
    /\ raised' = [raised EXCEPT ![r] = e]
    /\ pc' = [pc EXCEPT ![r] = "failed"]
    /\ UNCHANGED <<entry_attrs, result>>

(* A create request arrives: the framework builds dn and entry_attrs. *)
Start(r) ==
    /\ pc[r] = "idle"
    /\ \E a \in EntryAttrsInputs :
         /\ given' = [given EXCEPT ![r] = a]
         /\ entry_attrs' = [entry_attrs EXCEPT ![r] = a]
         /\ dn' = [dn EXCEPT ![r] = ChildDN(a.ou)]
    /\ pc' = [pc EXCEPT ![r] = "probe"]
    /\ UNCHANGED <<basedn, directory, result, raised, calls>>

(* The outcomes get_entry can have on DN d. *)
GetOutcomes(d) ==
    (IF EntriesAt(d) # {} THEN {NoError} ELSE {NotFoundError}) \cup OtherErrors

(* Slip: a bare except in place of except errors.NotFound. *)
ProbeHandledAny(e) == TRUE

(* try: ldap.get_entry(...) except errors.NotFound: -- is the error handled? *)
ProbeHandled(e) == e.type = "NotFound"

(* ldap.get_entry(container_dn, ['objectclass']) and what follows it. *)
Probe(r) ==
    /\ pc[r] = "probe"
    /\ \E e \in GetOutcomes(ContainerDN) :
         /\ calls' = [calls EXCEPT ![r] =
                Append(@, [op |-> "get_entry", dn |-> ContainerDN, outcome |-> e])]
         /\ IF e = NoError THEN Finish(r)
            ELSE IF ProbeHandled(e)
                 THEN /\ pc' = [pc EXCEPT ![r] = "add"]
                      /\ UNCHANGED <<entry_attrs, result, raised>>
                 ELSE Raise(r, e)
    /\ UNCHANGED <<basedn, directory, dn, given>>

(* The outcomes add_entry can have for entry e. *)
AddOutcomes(e) ==
    (IF EntriesAt(e.dn) # {} THEN {DuplicateEntryError} ELSE {NoError}) \cup OtherErrors

(* Slip: no handler for DuplicateEntry. *)
AddSuppressedNever(e) == FALSE

(* Slip: every failure of the container write is passed over. *)
AddSuppressedAny(e) == TRUE

(* except errors.DuplicateEntry: pass -- is the error suppressed? *)
AddSuppressed(e) == e.type = "DuplicateEntry"

(* errors.NotFound(reason='Failed to create container %(container)s: %(error)s') *)
ProvisioningError(e) ==
    [type |-> "NotFound",
     reason |-> "Failed to create container " \o DNStr(ContainerDN) \o ": " \o ErrStr(e)]

(* ldap.add_entry(container_entry) and what follows it. *)
AddContainer(r) ==
    /\ pc[r] = "add"
    /\ \E e \in AddOutcomes(container_entry) :
         /\ calls' = [calls EXCEPT ![r] =
                Append(@, [op |-> "add_entry", entry |-> container_entry, outcome |-> e])]
         /\ directory' = IF e = NoError THEN directory \cup {container_entry} ELSE directory
         /\ IF e = NoError \/ AddSuppressed(e) THEN Finish(r)
            ELSE Raise(r, ProvisioningError(e))
    /\ UNCHANGED <<basedn, dn, given>>

(***************************************************************************)
(* The operations inherited unchanged from the framework.                  *)
(***************************************************************************)

(* LDAPCreate writes the child entry at the DN pre_callback returned. *)
ChildWrite(r) ==
    /\ pc[r] = "returned"
    /\ \E e \in AddOutcomes(ChildEntry(r)) :
         /\ calls' = [calls EXCEPT ![r] =
                Append(@, [op |-> "child_add_entry", entry |-> ChildEntry(r), outcome |-> e])]
         /\ directory' = IF e = NoError THEN directory \cup {ChildEntry(r)} ELSE directory
    /\ pc' = [pc EXCEPT ![r] = "done"]
    /\ UNCHANGED <<basedn, dn, given, entry_attrs, result, raised>>

(* ou_del: LDAPDelete removes the Organizational Unit named name. *)
OuDel(name) ==
    /\ EntriesAt(ChildDN(name)) # {}
    /\ directory' = directory \ EntriesAt(ChildDN(name))
    /\ UNCHANGED <<basedn, pc, dn, given, entry_attrs, result, raised, calls>>

Next ==
    \/ \E r \in Requests : Start(r)
    \/ \E r \in Requests : Probe(r)
    \/ \E r \in Requests : AddContainer(r)
    \/ \E r \in Requests : ChildWrite(r)
    \/ \E name \in OuNames : OuDel(name)

Spec == Init /\ [][Next]_vars

(***************************************************************************)
(* Vocabulary of the properties.                                           *)
(***************************************************************************)

(* The text of the configured base DN, spelled out. *)
BaseDNText ==
    IF basedn = << <<"dc", "example">>, <<"dc", "com">> >>
    THEN "dc=example,dc=com"
    ELSE "dc=ipa,dc=test"

(* pre_callback of request r has returned. *)
Ensured(r) == pc[r] \in {"returned", "done"}

(* The calls of request r on operation op, in order. *)
CallsOf(r, op) == SelectSeq(calls[r], LAMBDA c : c.op = op)

Issued(r, op) == CallsOf(r, op) # << >>

(* The outcome of the single call of r on op. *)
OutcomeOf(r, op) == CallsOf(r, op)[1].outcome

(* The directory misbehaved for r: an outcome other than found / NotFound
   on the probe or written / DuplicateEntry on the container write. *)
ProbeFault(r) ==
    Issued(r, "get_entry") /\ OutcomeOf(r, "get_entry") \notin {NoError, NotFoundError}

AddFault(r) ==
    Issued(r, "add_entry") /\ OutcomeOf(r, "add_entry") \notin {NoError, DuplicateEntryError}

ContainerCount == Cardinality({e \in directory : e.dn = container_dn \o basedn})

ObjectCategorySpellings == {"objectcategory", "objectCategory", "OBJECTCATEGORY"}

ChildEntries == {e \in directory : "altOrganizationalUnit" \in e.objectclass}

(* C1: requests racing on an absent container: a request whose probe and
   container write met no failure other than NotFound / DuplicateEntry
   surfaces no error; a request whose add_entry got DuplicateEntry is in the
   same position as one whose add_entry succeeded (returned, the DN given,
   the object category defaulted); at most one container write succeeds and
   exactly one container entry exists once a request has returned. *)
C1_RaceTolerated ==
    /\ \A r \in Requests : (~ProbeFault(r) /\ ~AddFault(r)) => raised[r] = NoError
    /\ \A r \in Requests :
         (Issued(r, "add_entry") /\ OutcomeOf(r, "add_entry") \in {NoError, DuplicateEntryError})
            => /\ Ensured(r)
               /\ raised[r] = NoError
               /\ result[r] = dn[r]
               /\ \E k \in ObjectCategorySpellings : k \in DOMAIN entry_attrs[r]
    /\ Cardinality({r \in Requests :
          Issued(r, "add_entry") /\ OutcomeOf(r, "add_entry") = NoError}) <= 1
    /\ \A r \in Requests : Ensured(r) => ContainerCount = 1

(* Two requests both probed NotFound; one wrote the container, the other got
   DuplicateEntry; both returned without error. *)
C1_Witness ==
    \E r, s \in Requests :
        /\ r # s
        /\ Issued(r, "add_entry") /\ OutcomeOf(r, "add_entry") = NoError
        /\ Issued(s, "add_entry") /\ OutcomeOf(s, "add_entry") = DuplicateEntryError
        /\ Ensured(r) /\ Ensured(s)
        /\ raised[r] = NoError /\ raised[s] = NoError
        /\ ContainerCount = 1

(* C2: the ensure-container step run twice in sequence: a request that
   probes after another request has already returned (and whose probe meets
   no directory failure) returns without error in that very step, issues no
   add_entry, and leaves the directory as it found it, with exactly one
   container entry; every request that has returned, whatever the directory
   held at the start, leaves exactly one container entry. *)
C2_EnsureTwice ==
    [][ /\ \A s \in Requests :
             ( /\ pc[s] = "probe" /\ pc'[s] # "probe"
               /\ \E r \in Requests \ {s} : Ensured(r)
               /\ ~ProbeFault(s)' )
             => /\ pc'[s] = "returned"
                /\ raised'[s] = NoError
                /\ ~Issued(s, "add_entry")'
                /\ Len(calls'[s]) = 1
                /\ directory' = directory
                /\ ContainerCount' = 1
        /\ \A r \in Requests :
             (Ensured(r)' /\ ~ProbeFault(r)' /\ ~AddFault(r)')
             => (raised'[r] = NoError /\ ContainerCount' = 1)
      ]_vars

(* A first request created the container and returned; a second request then
   probed, found it and returned: both succeeded, one container entry. *)
C2_Witness ==
    \E r, s \in Requests :
        /\ r # s
        /\ Issued(r, "add_entry") /\ OutcomeOf(r, "add_entry") = NoError
        /\ Ensured(r) /\ Ensured(s)
        /\ Len(calls[s]) = 1
        /\ OutcomeOf(s, "get_entry") = NoError
        /\ ContainerCount = 1

(* C3: when the container write fails with an error other than
   DuplicateEntry, the request fails with a NotFound error whose reason names
   the container DN and the underlying error, and the request writes no
   child entry. *)
C3_ProvisioningFailure ==
    \A r \in Requests :
        AddFault(r)
        => /\ pc[r] = "failed"
           /\ raised[r].type = "NotFound"
           /\ raised[r].reason =
                "Failed to create container cn=altou," \o BaseDNText \o ": "
                    \o OutcomeOf(r, "add_entry").reason
           /\ ~Issued(r, "child_add_entry")
           /\ result[r] = NoDN

(* A container write failed with a database error and the request failed. *)
C3_Witness ==
    \E r \in Requests :
        /\ AddFault(r)
        /\ OutcomeOf(r, "add_entry").type = "DatabaseError"
        /\ pc[r] = "failed"
        /\ basedn = << <<"dc", "example">>, <<"dc", "com">> >>
        /\ raised[r].reason =
             "Failed to create container cn=altou,dc=example,dc=com: Server is unwilling to perform"

(* C4: whenever a child entry is in the directory, or a request's child
   write has succeeded, the container entry exists; a step never removes the
   container entry. *)
C4_ContainerBeforeChild ==
    [][ /\ (ChildEntries' # {} => ContainerCount' >= 1)
        /\ \A r \in Requests :
             (Issued(r, "child_add_entry")' /\ OutcomeOf(r, "child_add_entry")' = NoError)
             => ContainerCount' >= 1
        /\ (ContainerCount >= 1 => ContainerCount' >= 1)
      ]_vars

(* A child entry is in the directory under a container that a request of
   this component created, while another request failed. *)
C4_Witness ==
    /\ ChildEntries # {}
    /\ ContainerCount = 1
    /\ \E r \in Requests : Issued(r, "add_entry") /\ OutcomeOf(r, "add_entry") = NoError
    /\ \E r \in Requests : pc[r] = "failed"

(* C5: when the attribute map given to pre_callback specifies no object
   category, after a successful return its objectCategory value is
   CN=altOrganizationalUnit,CN=schema,<base DN>. *)
C5_DefaultObjectCategory ==
    \A r \in Requests :
        (Ensured(r) /\ DOMAIN given[r] \cap ObjectCategorySpellings = {})
        => /\ DOMAIN entry_attrs[r] \cap ObjectCategorySpellings = {"objectCategory"}
           /\ entry_attrs[r]["objectCategory"] =
                "CN=altOrganizationalUnit,CN=schema," \o BaseDNText

(* The scenario of the specification: base DN dc=example,dc=com, no object
   category supplied. *)
C5_Witness ==
    \E r \in Requests :
        /\ Ensured(r)
        /\ DOMAIN given[r] = {"ou"}
        /\ given[r].ou = "Engineering"
        /\ entry_attrs[r]["objectCategory"] =
             "CN=altOrganizationalUnit,CN=schema,dc=example,dc=com"

(* C6: when the attribute map given to pre_callback specifies an object
   category, under whichever spelling of the attribute name, after a
   successful return the map holds that value under that spelling and no
   other object-category key. *)
C6_SuppliedObjectCategoryKept ==
    \A r \in Requests :
        \A k \in ObjectCategorySpellings :
            (Ensured(r) /\ k \in DOMAIN given[r])
            => /\ DOMAIN entry_attrs[r] \cap ObjectCategorySpellings = {k}
               /\ entry_attrs[r][k] = given[r][k]

(* A request that supplied objectCategory (the spelling of the assignment,
   not of the membership test) has returned. *)
C6_Witness ==
    \E r \in Requests :
        /\ Ensured(r)
        /\ "objectCategory" \in DOMAIN given[r]
        /\ entry_attrs[r]["objectCategory"] = "CN=other,CN=schema,dc=corp"

(* C7: the entry a request writes as container is at cn=altou,<base DN>,
   has exactly the object classes nsContainer and top and the single
   attribute cn=altou; it is written only after the probe of that same DN
   returned NotFound, and a successful write puts that entry in the
   directory. *)
C7_ContainerEntryShape ==
    \A r \in Requests :
        Issued(r, "add_entry")
        => LET c == CallsOf(r, "add_entry")[1]
               g == calls[r][1]
           IN /\ c.entry.dn = << <<"cn", "altou">> >> \o basedn
              /\ DNStr(c.entry.dn) = "cn=altou," \o BaseDNText
              /\ c.entry.objectclass = {"nsContainer", "top"}
              /\ DOMAIN c.entry.attrs = {"cn"}
              /\ c.entry.attrs["cn"] = <<"altou">>
              /\ g.op = "get_entry"
              /\ g.outcome = NotFoundError
              /\ g.dn = c.entry.dn
              /\ (c.outcome = NoError => c.entry \in directory)

(* The scenario of the specification: base DN dc=example,dc=com, container
   absent, the container is created. *)
C7_Witness ==
    \E r \in Requests :
        /\ Issued(r, "add_entry")
        /\ OutcomeOf(r, "add_entry") = NoError
        /\ DNStr(CallsOf(r, "add_entry")[1].entry.dn) = "cn=altou,dc=example,dc=com"
        /\ ContainerCount = 1

(* C8: the directory calls of one request are get_entry, then at most one
   container add_entry, then the child write; the container write is issued
   only after the probe returned NotFound; the child write is issued only
   after the ensure step finished without error. *)
C8_CallOrder ==
    \A r \in Requests :
        LET ops == [i \in 1..Len(calls[r]) |-> calls[r][i].op]
        IN /\ ops \in { << >>,
                        <<"get_entry">>,
                        <<"get_entry", "add_entry">>,
                        <<"get_entry", "child_add_entry">>,
                        <<"get_entry", "add_entry", "child_add_entry">> }
           /\ Issued(r, "add_entry") => OutcomeOf(r, "get_entry") = NotFoundError
           /\ Issued(r, "child_add_entry")
                => /\ raised[r] = NoError
                   /\ IF Issued(r, "add_entry")
                      THEN OutcomeOf(r, "add_entry") \in {NoError, DuplicateEntryError}
                      ELSE OutcomeOf(r, "get_entry") = NoError
           /\ pc[r] = "failed" => ~Issued(r, "child_add_entry")

(* A request made all three calls: probe, container write, child write. *)
C8_Witness ==
    \E r \in Requests :
        /\ Len(calls[r]) = 3
        /\ pc[r] = "done"
        /\ OutcomeOf(r, "child_add_entry") = NoError

(* C9: when the probe fails with an error other than NotFound, the request
   fails with that very error, has issued no other directory call, its
   attribute map is as given, nothing is returned, and the failing step
   leaves the directory unchanged. *)
C9_ProbeErrorPropagates ==
    [][ \A r \in Requests :
          ProbeFault(r)'
          => /\ pc'[r] = "failed"
             /\ raised'[r] = calls'[r][1].outcome
             /\ Len(calls'[r]) = 1
             /\ entry_attrs'[r] = given'[r]
             /\ result'[r] = NoDN
             /\ (pc[r] = "probe" => directory' = directory)
      ]_vars

(* A probe was refused for insufficient access and the request failed with
   that error. *)
C9_Witness ==
    \E r \in Requests :
        /\ ProbeFault(r)
        /\ pc[r] = "failed"
        /\ raised[r] = [type |-> "ACIError", reason |-> "Insufficient access"]

(* C10: on a successful return the result is the DN given, and every
   attribute other than the object category is present after the call
   exactly when it was given, with the value given. *)
C10_Frame ==
    \A r \in Requests :
        Ensured(r)
        => /\ result[r] = dn[r]
           /\ result[r] = << <<"ou", given[r].ou>>, <<"cn", "altou">> >> \o basedn
           /\ DOMAIN entry_attrs[r] \ ObjectCategorySpellings
                = DOMAIN given[r] \ ObjectCategorySpellings
           /\ \A k \in DOMAIN given[r] \ ObjectCategorySpellings :
                entry_attrs[r][k] = given[r][k]

(* A request with description and gplink but no object category returned:
   the object category was added, the others are as given. *)
C10_Witness ==
    \E r \in Requests :
        /\ Ensured(r)
        /\ DOMAIN given[r] = {"ou", "description", "gplink"}
        /\ DOMAIN entry_attrs[r] = {"ou", "description", "gplink", "objectCategory"}
        /\ entry_attrs[r].description = "Sales department"
====
